---- MODULE Spec2Model ----
(***************************************************************************)
(* Model of backend/app.py: the device registry (sqlite table `devices`),  *)
(* the probe fetch_device_info, the push update_device, and the handlers   *)
(* get_devices, add_device, delete_device, scan_network and                *)
(* update_all_devices with their ThreadPoolExecutor batches.               *)
(***************************************************************************)
EXTENDS Integers, Sequences, FiniteSets, TLC

\* Latest value of CURRENT_TIMESTAMP the model lets the clock reach.
MaxClock == 1
\* Largest number of host bits (32 - prefix length) of the subnets SpecExpand draws.
MaxHostBits == 8
PoolExtra == 1

\* max_workers of the three ThreadPoolExecutor call sites.
ListWorkers == 50
ScanWorkers == 100
PushWorkers == 50

----------------------------------------------------------------------------
(* JSON values.  A value carries its JSON type, so that a string such as   *)
(* "3333" and the number 3333 are different values.                        *)

JStr(s) == [t |-> "str", s |-> s, n |-> 0]
JInt(n) == [t |-> "int", s |-> "", n |-> n]

\* f"miner-{ip}"
Placeholder(ip) == [t |-> "miner", s |-> "", n |-> ip]

\* f"HTTP Error: {e.response.status_code}"
HttpErrorMessage(status) == [t |-> "http_error", s |-> "", n |-> status]

\* dict.get(key, default)
Get(d, k, default) == IF k \in DOMAIN d THEN d[k] ELSE default

\* A response body: text that is no JSON, a JSON value that is no object, or a
\* JSON object (a function from its keys to their values).
NotJson == [json |-> "invalid", obj |-> <<>>]
JsonList == [json |-> "list", obj |-> <<>>]
Obj(o) == [json |-> "object", obj |-> o]

\* The outcome of one HTTP call: no response (requests raises a timeout) or a
\* response with a status code and a body.
Timeout == [net |-> "timeout", status |-> 0, body |-> NotJson]
Answer(status, body) == [net |-> "ok", status |-> status, body |-> body]

\* response.raise_for_status(): HTTPError for 4xx and 5xx.
RaisesForStatus(status) == status >= 400 /\ status < 600

----------------------------------------------------------------------------
(* Payload normalisation.                                                  *)

StringFields == {"stratumURL", "stratumUser", "stratumPass",
                 "fallbackStratumURL", "fallbackStratumUser", "fallbackStratumPass"}
NumberFields == {"stratumPort", "stratumSuggestedDifficulty", "stratumExtranonceSubscribe",
                 "fallbackStratumPort", "fallbackStratumSuggestedDifficulty",
                 "fallbackStratumExtranonceSubscribe"}
SettingsFields == StringFields \cup NumberFields

FieldDefault(k) == IF k \in StringFields THEN JStr("") ELSE JInt(0)

\* parse_device_info returns None when data.get raises (data is no dict).
ParseFails(data) == data.json # "object"

\* Faulty variant: only the fields the device sent are copied.
parse_device_info_sparse(ip, data) ==
    [ip |-> ip,
     hostname |-> Get(data.obj, "hostname", Placeholder(ip)),
     online |-> TRUE,
     settings |-> [k \in SettingsFields \cap DOMAIN data.obj |-> data.obj[k]]]

parse_device_info(ip, data) ==
    [ip |-> ip,
     hostname |-> Get(data.obj, "hostname", Placeholder(ip)),
     online |-> TRUE,
     settings |-> [k \in SettingsFields |-> Get(data.obj, k, FieldDefault(k))]]

----------------------------------------------------------------------------
(* The probe.  What fetch_device_info does for one address, given the      *)
(* device's reply and whether the sqlite connection opens (get_db) and     *)
(* whether the INSERT OR REPLACE commits.                                  *)

Offline(ip, error) == [ip |-> ip, online |-> FALSE, error |-> error]

NoResult == [none |-> TRUE]

\* raised: an exception leaves the function; write: the row (ip, hostname) is
\* written; result: the returned record.
Returned(result, write) == [raised |-> FALSE, write |-> write, result |-> result]
Raised == [raised |-> TRUE, write |-> FALSE, result |-> NoResult]

fetch_device_info(ip, reply, openOk, writeOk) ==
    IF ~openOk THEN Raised
    ELSE IF reply.net # "ok" THEN Returned(Offline(ip, reply.net), FALSE)
    ELSE IF RaisesForStatus(reply.status) THEN Returned(Offline(ip, "http_error"), FALSE)
    ELSE IF reply.body.json = "invalid" THEN Returned(Offline(ip, "invalid_json"), FALSE)
    ELSE IF ParseFails(reply.body)
         THEN Returned(Offline(ip, "Failed to parse data"), FALSE)
    ELSE IF ~writeOk THEN Returned(Offline(ip, "Unhandled exception"), FALSE)
    ELSE Returned(parse_device_info(ip, reply.body), TRUE)

----------------------------------------------------------------------------
(* The push of one device.                                                 *)

PushFailed(ip, error) == [ip |-> ip, success |-> FALSE, error |-> error]

update_device(ip, config, reply) ==
    IF reply.net # "ok"
    THEN PushFailed(ip, [t |-> "unreachable", s |-> reply.net, n |-> 0])
    ELSE IF RaisesForStatus(reply.status)
    THEN PushFailed(ip, IF reply.body.json = "object"
                        THEN Get(reply.body.obj, "error", HttpErrorMessage(reply.status))
                        ELSE HttpErrorMessage(reply.status))
    ELSE IF reply.body.json = "invalid"
    THEN PushFailed(ip, [t |-> "unreachable", s |-> "invalid_json", n |-> 0])
    ELSE [ip |-> ip, success |-> TRUE, data |-> reply.body]

----------------------------------------------------------------------------
(* The registry: the rows of table devices, keyed by ip.                   *)

Row(hostname, t) == [hostname |-> hostname, last_seen |-> t]

\* Faulty variant: an existing row keeps its last_seen.
Upsert_keeping(reg, ip, hostname, t) ==
    [x \in DOMAIN reg \cup {ip} |->
        IF x = ip THEN Row(hostname, IF ip \in DOMAIN reg THEN reg[ip].last_seen ELSE t)
        ELSE reg[x]]

\* Faulty variant: the statement refreshes last_seen of every row.
Upsert_touching(reg, ip, hostname, t) ==
    [x \in DOMAIN reg \cup {ip} |-> Row(IF x = ip THEN hostname ELSE reg[x].hostname, t)]

\* INSERT OR REPLACE INTO devices (ip, hostname, last_seen) VALUES (?, ?, CURRENT_TIMESTAMP)
Upsert(reg, ip, hostname, t) ==
    [x \in DOMAIN reg \cup {ip} |-> IF x = ip THEN Row(hostname, t) ELSE reg[x]]

\* DELETE FROM devices WHERE ip = ?
Remove(reg, ip) == [x \in DOMAIN reg \ {ip} |-> reg[x]]

----------------------------------------------------------------------------
(* Subnets.  A subnet string "a.b.c.d/p" is its dot-separated octets and,   *)
(* when it has a slash, the number after it.                               *)

Subnet(octets, prefix) == [octets |-> octets, hasPrefix |-> TRUE, prefix |-> prefix]
Host(octets) == [octets |-> octets, hasPrefix |-> FALSE, prefix |-> 0]

\* IPv4Network.max_prefixlen
AddressBits == 32

\* Faulty variant: the octets' range is not checked.
ValidOctets_unranged(o) == Len(o) = 4

ValidOctets(o) == Len(o) = 4 /\ \A i \in 1..4 : o[i] >= 0 /\ o[i] <= 255

AddressOf(o) == o[1] * 2^24 + o[2] * 2^16 + o[3] * 2^8 + o[4]

\* ipaddress.ip_network(subnet, strict=False): ValueError for a bad address or a
\* prefix length outside 0..32; otherwise the network with the host bits masked off.
ip_network(s) ==
    LET plen == IF s.hasPrefix THEN s.prefix ELSE AddressBits
        size == 2^(AddressBits - plen)
        addr == AddressOf(s.octets)
    IN  IF ~ValidOctets(s.octets) \/ plen < 0 \/ plen > AddressBits
        THEN [ok |-> FALSE, network_address |-> 0, broadcast_address |-> 0, prefixlen |-> 0]
        ELSE [ok |-> TRUE,
              network_address |-> addr - (addr % size),
              broadcast_address |-> addr - (addr % size) + (size - 1),
              prefixlen |-> plen]

\* Faulty variant: the range starts at the network address.
hosts_from_network(net) ==
    IF net.prefixlen >= AddressBits - 1
    THEN net.network_address .. net.broadcast_address
    ELSE net.network_address .. (net.broadcast_address - 1)

\* network.hosts(): every address for a /31 and a /32, otherwise the addresses
\* strictly between the network and the broadcast address.
hosts(net) ==
    IF net.prefixlen >= AddressBits - 1
    THEN net.network_address .. net.broadcast_address
    ELSE (net.network_address + 1) .. (net.broadcast_address - 1)

----------------------------------------------------------------------------
(* Requests and device replies the environment can produce.                *)

IP(k) == AddressOf(<<10, 0, 0, k>>)

\* Addresses a client asks to add or delete.
AddIPs == {IP(1), IP(2)}

\* request.get_json() without the key 'subnet', or with an empty one.
NoSubnet == [octets |-> <<>>, hasPrefix |-> FALSE, prefix |-> 0]

\* Subnets a client asks to scan: valid ones, and ones ip_network rejects.
ScanSubnets == {Subnet(<<10, 0, 0, 1>>, 30), Subnet(<<10, 0, 0, 2>>, 32),
                Subnet(<<10, 0, 0, 0>>, 33),
                Subnet(<<10, 0, 0, 256>>, 30), Host(<<10, 0, 0>>), NoSubnet}

NoFields == [k \in {} |-> JStr("")]

\* What a device can answer to GET /api/system/info.
ProbeReplies == {Timeout,
                 Answer(404, NotJson),
                 Answer(200, JsonList),
                 Answer(200, Obj([hostname |-> JStr("rigA")]))}

\* What can happen to one probe: the connection to the database opens or not, the
\* device replies, the row is committed or not.  A choice the probe never looks at
\* (the reply when the connection failed, the commit when nothing is written) is
\* fixed.
ProbeEnvs ==
    {e \in [reply : ProbeReplies, openOk : BOOLEAN, writeOk : BOOLEAN] :
        /\ ~e.openOk => (e.reply = Timeout /\ e.writeOk)
        /\ ~e.writeOk => (e.reply.net = "ok" /\ ~RaisesForStatus(e.reply.status)
                                             /\ ~ParseFails(e.reply.body))}

\* What a device can answer to PATCH /api/system.
PushReplies == {Timeout,
                Answer(200, Obj(NoFields)),
                Answer(200, NotJson),
                Answer(304, Obj(NoFields)),
                Answer(422, Obj([error |-> JStr("rejected")]))}

\* Bodies a client posts to /api/devices/update.
Configs == {[stratumPort |-> JStr("3333")],
            [stratumPort |-> JStr("abc")]}

----------------------------------------------------------------------------
(* State.                                                                  *)

VARIABLES
    registry,     \* table devices: ip -> [hostname, last_seen]
    now,          \* CURRENT_TIMESTAMP
    batch,        \* the batch handler in progress or last returned
    futures,      \* its futures: ip -> [state, raised, result]
    results,      \* the list the handler appends to (its response body)
    aborted,      \* future.result() raised in the handler's loop
    sent,         \* HTTP requests the batch's workers have issued
    last,         \* status of the last add_device or delete_device response
    subnet,       \* the subnet of the last scan request
    ips_to_scan   \* the addresses it expanded to

vars == <<registry, now, batch, futures, results, aborted, sent, last, subnet, ips_to_scan>>

Idle == [kind |-> "none", phase |-> "idle", status |-> 0, read |-> FALSE,
         input |-> {}, config |-> NoFields]

\* A future: pending, running, or finished with a result or an exception; reply is
\* the device's reply its call received.
Pending == [state |-> "PENDING", raised |-> FALSE, result |-> NoResult, reply |-> Timeout]
Running == [state |-> "RUNNING", raised |-> FALSE, result |-> NoResult, reply |-> Timeout]
Finished(r, reply) ==
    [state |-> "FINISHED", raised |-> r.raised, result |-> r.result, reply |-> reply]

NoLast == [op |-> "none", status |-> 0]

Init ==
    /\ registry = [x \in {} |-> Row(Placeholder(x), 0)]
    /\ now = 0
    /\ batch = Idle
    /\ futures = [x \in {} |-> Pending]
    /\ results = <<>>
    /\ aborted = FALSE
    /\ sent = {}
    /\ last = NoLast
    /\ subnet = NoSubnet
    /\ ips_to_scan = {}

\* The clock advances.
Tick ==
    /\ now < MaxClock
    /\ now' = now + 1
    /\ UNCHANGED <<registry, batch, futures, results, aborted, sent, last, subnet, ips_to_scan>>

----------------------------------------------------------------------------
(* POST /api/devices and DELETE /api/devices/<ip>.                         *)

\* The row add_device writes after its probe.
AddHostname(ip, info) ==
    IF ~info.raised /\ info.result.online THEN info.result.hostname ELSE Placeholder(ip)

add_device(ip, reply, openOk, writeOk, commitOk) ==
    LET info == fetch_device_info(ip, reply, openOk, writeOk)
        probed == IF info.write THEN Upsert(registry, ip, info.result.hostname, now)
                  ELSE registry
    IN  /\ last' = [op |-> "add", status |-> IF info.raised \/ ~commitOk THEN 500 ELSE 201]
        /\ registry' = IF info.raised THEN registry
                       ELSE IF commitOk THEN Upsert(probed, ip, AddHostname(ip, info), now)
                       ELSE probed
        /\ UNCHANGED <<now, batch, futures, results, aborted, sent, subnet, ips_to_scan>>

\* data.get('ip') is missing or empty.
add_device_no_ip ==
    /\ last' = [op |-> "add", status |-> 400]
    /\ UNCHANGED <<registry, now, batch, futures, results, aborted, sent, subnet, ips_to_scan>>

\* Faulty variant: deleting an address that is not tracked is answered 404.
delete_device_strict(ip, commitOk) ==
    /\ registry' = IF commitOk THEN Remove(registry, ip) ELSE registry
    /\ last' = [op |-> "delete",
                status |-> IF ~commitOk THEN 500
                           ELSE IF ip \in DOMAIN registry THEN 200 ELSE 404]
    /\ UNCHANGED <<now, batch, futures, results, aborted, sent, subnet, ips_to_scan>>

delete_device(ip, commitOk) ==
    /\ registry' = IF commitOk THEN Remove(registry, ip) ELSE registry
    /\ last' = [op |-> "delete", status |-> IF commitOk THEN 200 ELSE 500]
    /\ UNCHANGED <<now, batch, futures, results, aborted, sent, subnet, ips_to_scan>>

----------------------------------------------------------------------------
(* The batch handlers.                                                     *)

\* executor.submit for every address: one pending future each.
Submit(kind, ips, config) ==
    /\ batch' = [kind |-> kind, phase |-> "running", status |-> 0, read |-> TRUE,
                 input |-> ips, config |-> config]
    /\ futures' = [x \in ips |-> Pending]
    /\ results' = <<>>
    /\ aborted' = FALSE
    /\ sent' = {}

\* The handler fails before it submits anything.
Reject(kind, status) ==
    /\ batch' = [kind |-> kind, phase |-> "returned", status |-> status, read |-> FALSE,
                 input |-> {}, config |-> NoFields]
    /\ futures' = [x \in {} |-> Pending]
    /\ results' = <<>>
    /\ aborted' = FALSE
    /\ sent' = {}

get_devices(readOk) ==
    /\ batch.phase # "running"
    /\ IF readOk THEN Submit("list", DOMAIN registry, NoFields) ELSE Reject("list", 500)
    /\ subnet' = NoSubnet /\ ips_to_scan' = {}
    /\ UNCHANGED <<registry, now, last>>

\* Faulty variant: the push targets every address a client ever names, tracked or not.
update_all_devices_any(config, readOk) ==
    /\ batch.phase # "running"
    /\ IF readOk THEN Submit("push", DOMAIN registry \cup AddIPs, config)
       ELSE Reject("push", 500)
    /\ subnet' = NoSubnet /\ ips_to_scan' = {}
    /\ UNCHANGED <<registry, now, last>>

update_all_devices(config, readOk) ==
    /\ batch.phase # "running"
    /\ IF readOk THEN Submit("push", DOMAIN registry, config) ELSE Reject("push", 500)
    /\ subnet' = NoSubnet /\ ips_to_scan' = {}
    /\ UNCHANGED <<registry, now, last>>

scan_network(s) ==
    /\ batch.phase # "running"
    /\ subnet' = s
    /\ IF s = NoSubnet \/ ~ip_network(s).ok
       THEN Reject("scan", 400) /\ ips_to_scan' = {}
       ELSE /\ ips_to_scan' = hosts(ip_network(s))
            /\ Submit("scan", hosts(ip_network(s)), NoFields)
    /\ UNCHANGED <<registry, now, last>>

\* Faulty variant: one thread per submitted operation.
MaxWorkers_unbounded(kind) == Cardinality(DOMAIN futures)

MaxWorkers(kind) ==
    IF kind = "scan" THEN ScanWorkers ELSE IF kind = "push" THEN PushWorkers ELSE ListWorkers

InFlight == {x \in DOMAIN futures : futures[x].state = "RUNNING"}

\* for future in as_completed(futures): results.append(future.result()), for one
\* finished future r; scan_network keeps the online results only.
Collect(r) ==
    /\ aborted' = (aborted \/ r.raised)
    /\ results' = IF aborted \/ r.raised THEN results
                  ELSE IF batch.kind = "scan" /\ ~r.result.online THEN results
                  ELSE Append(results, r.result)

\* A pool thread takes a probe: get_db(), then the GET is issued.
StartProbe(ip, openOk) ==
    /\ batch.phase = "running" /\ batch.kind \in {"list", "scan"}
    /\ ip \in DOMAIN futures /\ futures[ip].state = "PENDING"
    /\ Cardinality(InFlight) < MaxWorkers(batch.kind)
    /\ IF openOk
       THEN /\ futures' = [futures EXCEPT ![ip] = Running]
            /\ sent' = sent \cup {[ip |-> ip, method |-> "GET", json |-> NoFields]}
            /\ UNCHANGED <<results, aborted>>
       ELSE /\ futures' = [futures EXCEPT ![ip] = Finished(Raised, Timeout)]
            /\ Collect(Raised)
            /\ UNCHANGED sent
    /\ UNCHANGED <<registry, now, batch, last, subnet, ips_to_scan>>

\* Faulty variant: a probe classified offline records the address with a placeholder row.
FinishProbe_marking(ip, reply, writeOk) ==
    /\ batch.phase = "running" /\ batch.kind \in {"list", "scan"}
    /\ ip \in DOMAIN futures /\ futures[ip].state = "RUNNING"
    /\ LET r == fetch_device_info(ip, reply, TRUE, writeOk)
       IN  /\ registry' = IF r.write THEN Upsert(registry, ip, r.result.hostname, now)
                          ELSE Upsert(registry, ip, Placeholder(ip), now)
           /\ futures' = [futures EXCEPT ![ip] = Finished(r, reply)]
           /\ Collect(r)
    /\ UNCHANGED <<now, batch, sent, last, subnet, ips_to_scan>>

\* The device's reply (or the timeout) arrives; the probe classifies it and writes.
FinishProbe(ip, reply, writeOk) ==
    /\ batch.phase = "running" /\ batch.kind \in {"list", "scan"}
    /\ ip \in DOMAIN futures /\ futures[ip].state = "RUNNING"
    /\ LET r == fetch_device_info(ip, reply, TRUE, writeOk)
       IN  /\ registry' = IF r.write THEN Upsert(registry, ip, r.result.hostname, now)
                          ELSE registry
           /\ futures' = [futures EXCEPT ![ip] = Finished(r, reply)]
           /\ Collect(r)
    /\ UNCHANGED <<now, batch, sent, last, subnet, ips_to_scan>>

\* A pool thread takes a push: the PATCH is issued with the request's body.
StartPush(ip) ==
    /\ batch.phase = "running" /\ batch.kind = "push"
    /\ ip \in DOMAIN futures /\ futures[ip].state = "PENDING"
    /\ Cardinality(InFlight) < MaxWorkers(batch.kind)
    /\ futures' = [futures EXCEPT ![ip] = Running]
    /\ sent' = sent \cup {[ip |-> ip, method |-> "PATCH", json |-> batch.config]}
    /\ UNCHANGED <<registry, now, batch, results, aborted, last, subnet, ips_to_scan>>

\* Faulty variant: an accepted push refreshes the device's row.
FinishPush_recording(ip, reply) ==
    /\ batch.phase = "running" /\ batch.kind = "push"
    /\ ip \in DOMAIN futures /\ futures[ip].state = "RUNNING"
    /\ LET r == Returned(update_device(ip, batch.config, reply), FALSE)
       IN  /\ registry' = IF r.result.success THEN Upsert(registry, ip, Placeholder(ip), now)
                          ELSE registry
           /\ futures' = [futures EXCEPT ![ip] = Finished(r, reply)]
           /\ Collect(r)
    /\ UNCHANGED <<now, batch, sent, last, subnet, ips_to_scan>>

FinishPush(ip, reply) ==
    /\ batch.phase = "running" /\ batch.kind = "push"
    /\ ip \in DOMAIN futures /\ futures[ip].state = "RUNNING"
    /\ LET r == Returned(update_device(ip, batch.config, reply), FALSE)
       IN  /\ futures' = [futures EXCEPT ![ip] = Finished(r, reply)]
           /\ Collect(r)
    /\ UNCHANGED <<registry, now, batch, sent, last, subnet, ips_to_scan>>

\* Faulty variant: the handler waits until it holds one result per submitted operation.
Return_counting ==
    /\ batch.phase = "running"
    /\ \A x \in DOMAIN futures : futures[x].state = "FINISHED"
    /\ Len(results) = Cardinality(DOMAIN futures)
    /\ batch' = [batch EXCEPT !.phase = "returned",
                              !.status = IF aborted THEN 500 ELSE 200]
    /\ UNCHANGED <<registry, now, futures, results, aborted, sent, last, subnet, ips_to_scan>>

\* The executor has shut down (every future finished): jsonify(results), or the
\* exception of future.result() leaves the handler.
Return ==
    /\ batch.phase = "running"
    /\ \A x \in DOMAIN futures : futures[x].state = "FINISHED"
    /\ batch' = [batch EXCEPT !.phase = "returned",
                              !.status = IF aborted THEN 500 ELSE 200]
    /\ UNCHANGED <<registry, now, futures, results, aborted, sent, last, subnet, ips_to_scan>>

Next ==
    \/ Tick
    \/ \E ip \in AddIPs, e \in ProbeEnvs, commitOk \in BOOLEAN :
          add_device(ip, e.reply, e.openOk, e.writeOk, commitOk)
    \/ add_device_no_ip
    \/ \E ip \in AddIPs, commitOk \in BOOLEAN : delete_device(ip, commitOk)
    \/ \E readOk \in BOOLEAN : get_devices(readOk)
    \/ \E config \in Configs, readOk \in BOOLEAN : update_all_devices(config, readOk)
    \/ \E s \in ScanSubnets : scan_network(s)
    \/ \E ip \in DOMAIN futures, openOk \in BOOLEAN : StartProbe(ip, openOk)
    \/ \E ip \in DOMAIN futures, e \in ProbeEnvs :
          e.openOk /\ FinishProbe(ip, e.reply, e.writeOk)
    \/ \E ip \in DOMAIN futures : StartPush(ip)
    \/ \E ip \in DOMAIN futures, reply \in PushReplies : FinishPush(ip, reply)
    \/ Return

Spec == Init /\ [][Next]_vars

----------------------------------------------------------------------------
(* The registry handlers on their own: clients add and delete addresses    *)
(* while the clock advances, and no list, scan or push runs.               *)

NextRegistry ==
    \/ Tick
    \/ \E ip \in AddIPs, e \in ProbeEnvs, commitOk \in BOOLEAN :
          add_device(ip, e.reply, e.openOk, e.writeOk, commitOk)
    \/ add_device_no_ip
    \/ \E ip \in AddIPs, commitOk \in BOOLEAN : delete_device(ip, commitOk)

SpecRegistry == Init /\ [][NextRegistry]_vars

----------------------------------------------------------------------------
(* The address set expansion of scan_network on its own: the subnet is     *)
(* drawn from a wider set and expanded, nothing is probed.                 *)

\* (first octets below 128: TLC's integers end at 2^31 - 1)
ExpandOctets == {<<10, 0, 0, 0>>, <<10, 0, 0, 5>>, <<100, 64, 1, 200>>,
                 <<127, 255, 0, 255>>, <<0, 0, 0, 0>>, <<126, 0, 3, 129>>,
                 <<10, 0, 0, 256>>, <<10, 0, 0>>}

ExpandSubnets ==
    {Subnet(o, p) : o \in ExpandOctets, p \in (AddressBits - MaxHostBits) .. (AddressBits + 1)}
    \cup {Host(o) : o \in ExpandOctets}

InitExpand ==
    /\ subnet \in ExpandSubnets
    /\ registry = [x \in {} |-> Row(Placeholder(x), 0)]
    /\ now = 0
    /\ batch = Idle
    /\ futures = [x \in {} |-> Pending]
    /\ results = <<>>
    /\ aborted = FALSE
    /\ sent = {}
    /\ last = NoLast
    /\ ips_to_scan = {}

\* network = ipaddress.ip_network(subnet, strict=False); ips_to_scan = network.hosts()
Expand ==
    /\ batch.phase = "idle"
    /\ ips_to_scan' = IF ip_network(subnet).ok THEN hosts(ip_network(subnet)) ELSE {}
    /\ batch' = [batch EXCEPT !.kind = "scan", !.phase = "expanded",
                              !.status = IF ip_network(subnet).ok THEN 0 ELSE 400]
    /\ UNCHANGED <<registry, now, futures, results, aborted, sent, last, subnet>>

NextExpand == Expand

SpecExpand == InitExpand /\ [][NextExpand]_vars

----------------------------------------------------------------------------
(* Payload normalisation on its own: one probe of a list is waiting for    *)
(* its reply, and the device answers 200 with any of a wider set of        *)
(* bodies.                                                                 *)

\* A value a device sends for a field.
RawValue(k) ==
    IF k = "hostname" THEN JStr("rigA") ELSE IF k \in StringFields THEN JStr("x") ELSE JInt(1)

\* Every JSON object over a subset of the twelve fields and hostname, an object with
\* a field of the wrong type, and bodies that are no object.
RawBodies ==
    {Obj([k \in present |-> RawValue(k)]) : present \in SUBSET (SettingsFields \cup {"hostname"})}
    \cup {Obj([stratumPort |-> JStr("abc")]), Obj([stratumURL |-> JInt(1)]), JsonList, NotJson}

InitParse ==
    /\ registry = [x \in {IP(1)} |-> Row(Placeholder(x), 0)]
    /\ now = 0
    /\ batch = [kind |-> "list", phase |-> "running", status |-> 0, read |-> TRUE,
                input |-> {IP(1)}, config |-> NoFields]
    /\ futures = [x \in {IP(1)} |-> Running]
    /\ results = <<>>
    /\ aborted = FALSE
    /\ sent = {[ip |-> IP(1), method |-> "GET", json |-> NoFields]}
    /\ last = [op |-> "add", status |-> 201]
    /\ subnet = NoSubnet
    /\ ips_to_scan = {}

NextParse ==
    \E ip \in DOMAIN futures, body \in RawBodies : FinishProbe(ip, Answer(200, body), TRUE)

SpecParse == InitParse /\ [][NextParse]_vars

----------------------------------------------------------------------------
(* The batch handlers under fair scheduling: two addresses are tracked,    *)
(* clients list, scan and push, every pool thread that can take work does, *)
(* every network call resolves, and the handler that can return does.      *)

InitLive ==
    /\ registry = [x \in AddIPs |-> Row(Placeholder(x), 0)]
    /\ now = 0
    /\ batch = Idle
    /\ futures = [x \in {} |-> Pending]
    /\ results = <<>>
    /\ aborted = FALSE
    /\ sent = {}
    /\ last = NoLast
    /\ subnet = NoSubnet
    /\ ips_to_scan = {}

\* A pool thread takes a queued operation.
StartsWork ==
    \E ip \in DOMAIN futures : (\E openOk \in BOOLEAN : StartProbe(ip, openOk)) \/ StartPush(ip)

\* requests.get / requests.patch comes back: a response, a failure or the timeout.
CallResolves ==
    \E ip \in DOMAIN futures :
        \/ \E e \in ProbeEnvs : e.openOk /\ FinishProbe(ip, e.reply, e.writeOk)
        \/ \E reply \in PushReplies : FinishPush(ip, reply)

NextLive ==
    \/ \E readOk \in BOOLEAN : get_devices(readOk)
    \/ \E config \in Configs, readOk \in BOOLEAN : update_all_devices(config, readOk)
    \/ \E s \in ScanSubnets : scan_network(s)
    \/ StartsWork
    \/ CallResolves
    \/ Return

SpecLive ==
    /\ InitLive /\ [][NextLive]_vars
    /\ WF_vars(StartsWork) /\ WF_vars(CallResolves) /\ WF_vars(Return)

----------------------------------------------------------------------------
(* The worker pools with more work than threads: PoolExtra addresses more  *)
(* than a pool has threads are tracked, and the scanned subnet has more    *)
(* hosts than the scan pool has threads.  Threads take the queued          *)
(* operations in submission order, every call runs into its timeout, and   *)
(* the calls time out in the order they were made.                         *)

PoolIPs == {IP(k) : k \in 1..(ListWorkers + PoolExtra)}

\* 10.0.0.0/25: 126 hosts.
PoolSubnet == Subnet(<<10, 0, 0, 0>>, 25)

Least(S) == CHOOSE x \in S : \A y \in S : x <= y

Queued == {x \in DOMAIN futures : futures[x].state = "PENDING"}

InitPool ==
    /\ registry = [x \in PoolIPs |-> Row(Placeholder(x), 0)]
    /\ now = 0
    /\ batch = Idle
    /\ futures = [x \in {} |-> Pending]
    /\ results = <<>>
    /\ aborted = FALSE
    /\ sent = {}
    /\ last = NoLast
    /\ subnet = NoSubnet
    /\ ips_to_scan = {}

\* The thread that is free takes the head of the executor's work queue.
PoolStart ==
    /\ Queued # {}
    /\ StartProbe(Least(Queued), TRUE) \/ StartPush(Least(Queued))

PoolFinish ==
    /\ InFlight # {}
    /\ FinishProbe(Least(InFlight), Timeout, TRUE) \/ FinishPush(Least(InFlight), Timeout)

NextPool ==
    \/ get_devices(TRUE)
    \/ \E config \in Configs : update_all_devices(config, TRUE)
    \/ scan_network(PoolSubnet)
    \/ PoolStart
    \/ PoolFinish
    \/ Return

SpecPool ==
    /\ InitPool /\ [][NextPool]_vars
    /\ WF_vars(PoolStart) /\ WF_vars(PoolFinish) /\ WF_vars(Return)

----------------------------------------------------------------------------
(* Properties.                                                             *)

\* The number of entries of the response that carry address ip.
EntriesFor(ip) == Cardinality({i \in 1..Len(results) : results[i].ip = ip})

\* The batch submitted its work and has returned.
BatchReturned(kinds) ==
    batch.kind \in kinds /\ batch.read /\ batch.phase = "returned"

\* C1: a list or a push run on N addresses returns an array of exactly N entries,
\* each carrying a distinct address of the input, whatever the per-address outcomes.
C1_BatchResultPerAddress ==
    BatchReturned({"list", "push"}) =>
        /\ batch.status = 200
        /\ Len(results) = Cardinality(batch.input)
        /\ \A ip \in batch.input : EntriesFor(ip) = 1

\* C2: fetch_device_info never raises: every finished probe holds a result record for
\* its address; an offline result has an error and no settings, an online one has
\* settings and no error.
C2_ProbeNeverRaises ==
    batch.kind \in {"list", "scan"} =>
        \A ip \in DOMAIN futures :
            futures[ip].state = "FINISHED" =>
                /\ ~futures[ip].raised
                /\ futures[ip].result.ip = ip
                /\ IF futures[ip].result.online
                   THEN /\ "settings" \in DOMAIN futures[ip].result
                        /\ "error" \notin DOMAIN futures[ip].result
                   ELSE /\ "error" \in DOMAIN futures[ip].result
                        /\ "settings" \notin DOMAIN futures[ip].result

\* The probe of ip returns an offline classification in this environment.
ClassifiedOffline(ip, e) ==
    LET info == fetch_device_info(ip, e.reply, e.openOk, e.writeOk)
    IN  ~info.raised /\ ~info.result.online

\* This step is a probe of ip, by add_device or by a worker of a list or a scan,
\* that is classified offline.
OfflineProbeStep(ip) ==
    \E e \in ProbeEnvs :
        /\ ClassifiedOffline(ip, e)
        /\ \/ \E commitOk \in BOOLEAN : add_device(ip, e.reply, e.openOk, e.writeOk, commitOk)
           \/ FinishProbe(ip, e.reply, e.writeOk)

\* C3: a probe classified offline for a tracked address neither deletes its row nor
\* changes its stored hostname.
C3_OfflineKeepsHostname ==
    [][\A ip \in DOMAIN registry :
          OfflineProbeStep(ip) =>
              /\ ip \in DOMAIN registry'
              /\ registry'[ip].hostname = registry[ip].hostname]_vars

\* A push begins in this step.
PushBegins == batch.phase # "running" /\ batch'.kind = "push" /\ batch'.phase = "running"

\* C4 (state part): the PATCHes of a push go to addresses of its input only, and when
\* it has returned every input address was sent one and has exactly one result entry,
\* with a Boolean success flag.
PushTargetsInput ==
    (batch.kind = "push" /\ batch.read) =>
        /\ \A m \in sent : m.method = "PATCH" /\ m.ip \in batch.input
        /\ batch.phase = "returned" =>
              /\ {m.ip : m \in sent} = batch.input
              /\ batch.status = 200
              /\ Len(results) = Cardinality(batch.input)
              /\ \A ip \in batch.input : EntriesFor(ip) = 1
              /\ \A i \in 1..Len(results) : results[i].success \in BOOLEAN

\* C4: a push sends its PATCH to exactly the addresses tracked when it reads the
\* tracked list, and each of them has exactly one result entry, success true or false.
C4_PushTargetsTracked ==
    /\ []PushTargetsInput
    /\ [][PushBegins => batch'.input = DOMAIN registry]_vars

C4_Witness ==
    /\ BatchReturned({"push"})
    /\ Cardinality(batch.input) = 2
    /\ Cardinality(DOMAIN registry) = 1
    /\ \E i, j \in 1..Len(results) : results[i].success /\ ~results[j].success

\* The device answered the PATCH with a 2xx status.
Answered2xx(reply) == reply.net = "ok" /\ reply.status >= 200 /\ reply.status <= 299

\* C5: a push result has success=true if and only if the device answered 2xx.
C5_SuccessIff2xx ==
    batch.kind = "push" =>
        \A ip \in DOMAIN futures :
            futures[ip].state = "FINISHED" =>
                (futures[ip].result.success <=> Answered2xx(futures[ip].reply))

\* Strings that read as a number.
NumericStrings == {"3333"}

\* A field of the payload cannot be coerced to its declared type.
Uncoercible(config) ==
    \E k \in DOMAIN config \cap NumberFields :
        config[k].t = "str" /\ config[k].s \notin NumericStrings

\* C6: a push whose payload has an uncoercible field sends no PATCH.
C6_BadPayloadSendsNothing ==
    (batch.kind = "push" /\ Uncoercible(batch.config)) => sent = {}

\* C7: a scan probes every host of the subnet and responds with exactly the hosts
\* whose probe was classified online, once each.
C7_ScanReturnsOnline ==
    BatchReturned({"scan"}) =>
        /\ {m.ip : m \in sent} = batch.input
        /\ batch.status = 200
        /\ \A ip \in batch.input :
              /\ ~futures[ip].raised
              /\ EntriesFor(ip) = IF futures[ip].result.online THEN 1 ELSE 0
        /\ \A i \in 1..Len(results) : results[i].ip \in batch.input /\ results[i].online

\* The probe of ip by a worker of a list or a scan fails in this step.
ProbeFails(ip) ==
    /\ batch.kind \in {"list", "scan"} /\ batch.phase = "running"
    /\ ip \in DOMAIN futures /\ futures[ip].state # "FINISHED"
    /\ ip \in DOMAIN futures' /\ futures'[ip].state = "FINISHED"
    /\ (futures'[ip].raised \/ ~futures'[ip].result.online)

\* C8: a failed probe of an address that is not tracked creates no row for it.
C8_FailedProbeAddsNothing ==
    [][\A ip \in DOMAIN futures :
          (ProbeFails(ip) /\ ip \notin DOMAIN registry) => ip \notin DOMAIN registry']_vars

C8_Witness ==
    /\ batch.kind = "scan"
    /\ \E ip \in DOMAIN futures :
          /\ futures[ip].state = "FINISHED" /\ ~futures[ip].raised
          /\ ~futures[ip].result.online
          /\ ip \notin DOMAIN registry
    /\ \E ip \in DOMAIN futures : ip \in DOMAIN registry

\* The subnet reads as four octets in range and, if any, a prefix length in 0..32.
WellFormed(s) ==
    /\ Len(s.octets) = 4
    /\ \A i \in 1..4 : s.octets[i] \in 0..255
    /\ s.hasPrefix => s.prefix \in 0..32

PrefixOf(s) == IF s.hasPrefix THEN s.prefix ELSE 32

\* The first address of the block of 2^(32-P) addresses that holds the given one.
BlockStart(s) ==
    LET size == 2^(32 - PrefixOf(s))
    IN  (AddressOf(s.octets) \div size) * size

\* C9: for a prefix length P <= 30 the scan's address set has 2^(32-P) - 2 addresses,
\* all inside the subnet, and holds neither the network nor the broadcast address;
\* for a /32 it is the one given host.
C9_HostCount ==
    (batch.phase = "expanded" /\ WellFormed(subnet)) =>
        LET P == PrefixOf(subnet)
            size == 2^(32 - P)
        IN  /\ P <= 30 =>
                /\ Cardinality(ips_to_scan) = size - 2
                /\ \A a \in ips_to_scan :
                      a > BlockStart(subnet) /\ a < BlockStart(subnet) + (size - 1)
            /\ P = 32 => ips_to_scan = {AddressOf(subnet.octets)}

C9_Witness ==
    /\ batch.phase = "expanded"
    /\ subnet = Subnet(<<100, 64, 1, 200>>, 32 - MaxHostBits)
    /\ Cardinality(ips_to_scan) = 2^MaxHostBits - 2

\* C10: a scan request whose subnet is missing or malformed is answered 400 with no
\* work submitted: no future, no request sent, the registry unchanged.
C10_BadSubnetRejected ==
    [][\A s \in ScanSubnets :
          (scan_network(s) /\ ~WellFormed(s)) =>
              /\ batch'.phase = "returned" /\ batch'.status = 400
              /\ DOMAIN futures' = {}
              /\ sent' = {}
              /\ registry' = registry]_vars

C10_Witness ==
    /\ batch.kind = "scan" /\ batch.phase = "returned" /\ batch.status = 400
    /\ subnet = Subnet(<<10, 0, 0, 256>>, 30)
    /\ DOMAIN registry # {}

\* This step is a POST /api/devices for ip in environment e.
AddStep(ip, e, commitOk) == add_device(ip, e.reply, e.openOk, e.writeOk, commitOk)

\* Every row but the one of ip is the same before and after the step.
OthersUnchanged(ip) ==
    \A x \in (DOMAIN registry \cup DOMAIN registry') \ {ip} :
        x \in DOMAIN registry /\ x \in DOMAIN registry' /\ registry'[x] = registry[x]

\* C11: POST /api/devices for an unreachable device answers with a 404-class error
\* and the address is tracked afterwards; for a reachable device it answers 201.
C11_UnreachableAddIs404 ==
    [][\A ip \in AddIPs, e \in ProbeEnvs :
          AddStep(ip, e, TRUE) =>
              /\ ClassifiedOffline(ip, e) =>
                    (last'.status >= 400 /\ last'.status <= 499 /\ ip \in DOMAIN registry')
              /\ (e.openOk /\ ~ClassifiedOffline(ip, e)) => last'.status = 201]_vars

C13_DeleteAlways200 ==
    [][\A ip \in AddIPs, commitOk \in BOOLEAN :
          delete_device(ip, commitOk) =>
              (last'.status = 200 /\ ip \notin DOMAIN registry' /\ OthersUnchanged(ip))]_vars

\* C13: a DELETE is answered 200 exactly when its statement commits, whether the
\* address is tracked or not; then the address is absent, and deleting an absent
\* address changes nothing.  Otherwise it is answered 500 and the registry is as it
\* was.  No other row changes in either case.
C13_DeleteIdempotent ==
    [][\A ip \in AddIPs, commitOk \in BOOLEAN :
          delete_device(ip, commitOk) =>
              /\ last'.status = IF commitOk THEN 200 ELSE 500
              /\ commitOk => ip \notin DOMAIN registry'
              /\ (~commitOk \/ ip \notin DOMAIN registry) => registry' = registry
              /\ OthersUnchanged(ip)]_vars

C13_Witness ==
    /\ last = [op |-> "delete", status |-> 200]
    /\ now = MaxClock
    /\ \E x \in AddIPs : registry = [y \in {x} |-> Row(JStr("rigA"), 0)]

\* The default the canonical settings declare for a field.
DeclaredDefault(k) == IF k \in StringFields THEN JStr("") ELSE JInt(0)

\* C14: for an object payload with any subset of the twelve fields the settings have
\* all twelve fields, a sent field with the value sent and a missing one with its
\* default; a payload that is no object gives, without an exception, an offline
\* result with the malformed-payload error.
C14_NormalisationTotal ==
    \A ip \in DOMAIN futures :
        futures[ip].state = "FINISHED" =>
            LET body == futures[ip].reply.body
                r == futures[ip].result
            IN  /\ ~futures[ip].raised
                /\ body.json = "object" =>
                      /\ r.online
                      /\ DOMAIN r.settings = SettingsFields
                      /\ \A k \in SettingsFields :
                            r.settings[k] = IF k \in DOMAIN body.obj THEN body.obj[k]
                                            ELSE DeclaredDefault(k)
                /\ body.json = "list" =>
                      (~r.online /\ r.error = "Failed to parse data")

C14_Witness ==
    \E ip \in DOMAIN futures :
        /\ futures[ip].state = "FINISHED"
        /\ futures[ip].reply.body = Obj([stratumPort |-> JInt(1)])
        /\ futures[ip].result.online
        /\ futures[ip].result.settings["stratumPort"] = JInt(1)
        /\ futures[ip].result.settings["fallbackStratumURL"] = JStr("")

\* C15: a list, scan or push responds only after every operation it dispatched has
\* finished, and an operation that fails, an exception leaving it included, does not
\* take the results of its siblings out of the response (a scan reports the online
\* ones).
C15_CompletionBasedCollection ==
    BatchReturned({"list", "scan", "push"}) =>
        /\ \A x \in DOMAIN futures : futures[x].state = "FINISHED"
        /\ batch.status = 200
        /\ \A x \in DOMAIN futures :
              (~futures[x].raised /\ (batch.kind = "scan" => futures[x].result.online))
                  => \E i \in 1..Len(results) : results[i] = futures[x].result

\* C18: the worker that completes the probe of address A writes at most the row keyed
\* A, with its own hostname and the current time, and leaves every other row as it
\* is; the worker that takes a probe writes nothing; and a finished operation of a
\* batch is not run again, so no key is written by two workers of one batch.
C18_DisjointKeyWrites ==
    [][(batch' = batch /\ batch.kind \in {"list", "scan"}) =>
          \A ip \in DOMAIN futures :
              LET f == futures[ip]
                  g == futures'[ip]
              IN  /\ (f.state = "PENDING" /\ g # f) => registry' = registry
                  /\ (f.state = "RUNNING" /\ g # f) =>
                        /\ g.state = "FINISHED"
                        /\ OthersUnchanged(ip)
                        /\ registry' = IF ~g.raised /\ g.result.online
                                       THEN Upsert(registry, ip, g.result.hostname, now)
                                       ELSE registry
                  /\ f.state = "FINISHED" => g = f]_vars

C18_Witness ==
    /\ batch.kind = "list"
    /\ \E a, b \in DOMAIN futures :
          /\ a # b
          /\ futures[a].state = "FINISHED" /\ futures[b].state = "FINISHED"
          /\ ~futures[a].raised /\ futures[a].result.online
          /\ ~futures[b].raised /\ ~futures[b].result.online
          /\ a \in DOMAIN registry /\ registry[a] = Row(JStr("rigA"), MaxClock)
          /\ b \in DOMAIN registry /\ registry[b] = Row(Placeholder(b), 0)

\* C19: an address that is not tracked becomes tracked only by a POST /api/devices
\* for it or by a probe of a scan; a probe of GET /api/devices whose address was
\* deleted after the list was read does not create the row again.
C19_DeletedStaysAbsent ==
    [][\A ip \in AddIPs :
          (ip \notin DOMAIN registry /\ ip \in DOMAIN registry')
              => \/ \E e \in ProbeEnvs, commitOk \in BOOLEAN : AddStep(ip, e, commitOk)
                 \/ batch.kind = "scan"]_vars

\* The step belongs to POST /api/devices/update: the handler submits, a worker takes
\* or completes a PATCH, or the handler returns.
PushStep ==
    /\ batch'.kind = "push"
    /\ \/ \E config \in Configs, readOk \in BOOLEAN : update_all_devices(config, readOk)
       \/ \E ip \in DOMAIN futures : StartPush(ip)
       \/ \E ip \in DOMAIN futures, reply \in PushReplies : FinishPush(ip, reply)
       \/ Return

\* C20: no step of a config push changes the registry, whatever the device answers to
\* the PATCH: the tracked addresses and every row's hostname and last_seen stay.
C20_PushLeavesRegistry == [][PushStep => registry' = registry]_vars

C20_Witness ==
    /\ BatchReturned({"push"})
    /\ now = MaxClock
    /\ \E a, b \in DOMAIN futures :
          /\ futures[a].result.success
          /\ ~futures[b].result.success
          /\ a \in DOMAIN registry /\ registry[a].last_seen = 0
          /\ b \in DOMAIN registry /\ registry[b].last_seen = 0

\* C16: at every moment of a batch the operations in flight are at most the threads of
\* its pool (50 for a list, 100 for a scan, 50 for a push), also when more operations
\* were submitted than the pool has threads, and the operations still queued are all
\* started in the end.
C16_PoolBound ==
    /\ [](batch.phase = "running" =>
            Cardinality(InFlight) <= (IF batch.kind = "scan" THEN 100 ELSE 50))
    /\ (batch.phase = "running" /\ Queued # {}) ~> (Queued = {})

C16_Witness ==
    /\ batch.kind = "scan" /\ batch.phase = "running"
    /\ Cardinality(InFlight) = 100
    /\ Cardinality(Queued) = 26

\* The step resolves the call to ip by its timeout.
TimesOut(ip) == FinishProbe(ip, Timeout, TRUE) \/ FinishPush(ip, Timeout)

\* C17: when pool threads are scheduled fairly and every network call resolves, every
\* list, scan and push that was started returns; and a call that times out gives its
\* own operation an offline or failed result and leaves every other operation of the
\* batch as it is.
C17_BatchReturns ==
    /\ (batch.phase = "running") ~> (batch.phase = "returned")
    /\ [][\A ip \in DOMAIN futures :
             (batch' = batch /\ TimesOut(ip)) =>
                 /\ futures'[ip].state = "FINISHED" /\ ~futures'[ip].raised
                 /\ IF batch.kind = "push" THEN ~futures'[ip].result.success
                    ELSE ~futures'[ip].result.online
                 /\ \A x \in DOMAIN futures \ {ip} : futures'[x] = futures[x]
                 /\ aborted' = aborted]_vars

C17_Witness ==
    /\ BatchReturned({"list"}) /\ batch.status = 200
    /\ \E a, b \in DOMAIN futures :
          /\ futures[a].reply = Timeout /\ ~futures[a].result.online
          /\ futures[b].result.online
    /\ Len(results) = 2

====
